---- MODULE Spec2Model ----
(***************************************************************************)
(* Model of alecthomas/clogs: the scoped logger, its output transformer    *)
(* (Logger.WriterAt / Logger.writerScanner), the PTY session (Logger.Exec) *)
(* and the terminal-size event source (Logger.syncTermSize).               *)
(*                                                                         *)
(* Bytes are modelled as short strings: "a" is a printable byte, "NL" and  *)
(* "CR" are \n and \r, "ESC" is 0x1B, the digits are "0".."9", and the     *)
(* three-byte UTF-8 ellipsis is the single token "ELLIPSIS".               *)
(***************************************************************************)
EXTENDS Integers, Sequences, FiniteSets, TLC

\* ------------------------------------------------------------------ bounds
MaxItems == 2       \* items (text bytes / control sequences) per input stream
MaxStores == 1      \* resize notifications handled by the SIGWINCH watcher
MaxCloses == 2      \* Close calls made on one writer
MaxWrites == 2      \* Write calls the input stream is split into
MaxResizes == 2     \* resize notifications during one Exec, where their order matters
MaxPrints == 2      \* leveled print calls made on one logger
MaxExecItems == 1   \* bytes the subprocess of an Exec writes

\* ------------------------------------------------------- program constants
U16 == 65536        \* terminalSize fields are uint16
MinMargin == 16     \* max(16, w/5)
MarginDiv == 5
DefMargin == 16     \* terminalSize{margin: 16, width: 80, height: 25}
DefWidth == 80
DefHeight == 25
ChaOffset == 2      \* params[0] + margin + 2

\* --------------------------------------------------------------- LogLevel
LogLevelTrace == 0
LogLevelDebug == 1
LogLevelInfo == 2
LogLevelNotice == 3
LogLevelWarn == 4
LogLevelError == 5
LogLevels == LogLevelTrace..LogLevelError

Max(a, b) == IF a >= b THEN a ELSE b

\* --------------------------------------------------------- sequence helpers
RECURSIVE Flatten(_)
Flatten(ss) == IF ss = <<>> THEN <<>> ELSE Head(ss) \o Flatten(Tail(ss))

RECURSIVE Repeat(_, _)
Repeat(c, n) == IF n <= 0 THEN <<>> ELSE <<c>> \o Repeat(c, n - 1)

IsSuffix(s, t) == /\ Len(s) <= Len(t)
                  /\ SubSeq(t, Len(t) - Len(s) + 1, Len(t)) = s

\* ------------------------------------------------------------------- bytes
ESC == "ESC"
NL == "NL"
CR == "CR"
Digits == <<"0", "1", "2", "3", "4", "5", "6", "7", "8", "9">>
DigitSet == {Digits[i] : i \in 1..10}
DigitVal(d) == (CHOOSE i \in 1..10 : Digits[i] = d) - 1

\* fmt.Sprintf("%d", n)
RECURSIVE FormatNat(_)
FormatNat(n) == IF n < 10 THEN <<Digits[n + 1]>>
                ELSE FormatNat(n \div 10) \o <<Digits[(n % 10) + 1]>>
FormatInt(n) == IF n < 0 THEN <<"-">> \o FormatNat(0 - n) ELSE FormatNat(n)

\* ------------------------------------------------------------ terminalSize
\* margin := uint16(max(16, w/5)); terminalSize{margin, uint16(w), uint16(h)}
SizeFor(w, h) == [margin |-> Max(MinMargin, w \div MarginDiv) % U16,
                  width |-> w % U16,
                  height |-> h % U16]
DefaultSize == [margin |-> DefMargin, width |-> DefWidth, height |-> DefHeight]

\* Cols: size.width - (margin + 1), in uint16 arithmetic
PtyCols(width, margin) == (width - ((margin + 1) % U16)) % U16
Winsize(rows, width, margin) == [rows |-> rows, cols |-> PtyCols(width, margin)]

\* ---------------------------------------------------------------- getScope
\* strings.ReplaceAll(scope, "%", "%%")
RECURSIVE EscapePercent(_)
EscapePercent(s) ==
    IF s = <<>> THEN <<>>
    ELSE (IF Head(s) = "%" THEN <<"%", "%">> ELSE <<Head(s)>>) \o EscapePercent(Tail(s))

getScope(scope, margin) ==
    LET cut == IF Len(scope) > margin
               THEN <<"ELLIPSIS">> \o SubSeq(scope, Len(scope) - margin + 2, Len(scope))
               ELSE scope \o Repeat(" ", margin - Len(scope))
    IN EscapePercent(cut)

\* ansiTable when stdout is a terminal; the empty map otherwise
ansiTable(tty, level) ==
    IF ~tty THEN <<>>
    ELSE CASE level = LogLevelTrace -> <<ESC, "[", "9", "0", "m">>
           [] level = LogLevelDebug -> <<ESC, "[", "3", "4", "m">>
           [] level = LogLevelInfo -> <<>>
           [] level = LogLevelNotice -> <<ESC, "[", "3", "2", "m">>
           [] level = LogLevelWarn -> <<ESC, "[", "3", "3", "m">>
           [] OTHER -> <<ESC, "[", "3", "1", "m">>

Reset == <<ESC, "[", "0", "m">>
\* the scope-to-colour hash is an external collaborator: one opaque token
targetColour(scope) == <<"COLOUR">>

getPrefix(threshold, scope, tty, margin, level) ==
    IF threshold > level THEN <<>>
    ELSE LET sc == getScope(scope, margin)
         IN IF sc # <<>>
            THEN targetColour(sc) \o sc \o Reset \o <<"|", " ">> \o ansiTable(tty, level)
            ELSE ansiTable(tty, level)


\* ------------------------------------------------------ csi.Reader (csi package)
\* Bytes in the final-byte range 0x40-0x7E that the model's alphabet contains.
FinalBytes == {"a", "G", "K", "m", "s", "u", "[", "|"}

\* index of the first final byte after "ESC [", or 0
RECURSIVE FinalFrom(_, _)
FinalFrom(buf, i) ==
    IF i > Len(buf) THEN 0
    ELSE IF buf[i] \in FinalBytes THEN i
    ELSE FinalFrom(buf, i + 1)
FinalIndex(buf) == FinalFrom(buf, 3)

\* length of the run of non-ESC bytes starting at i
RECURSIVE RunFrom(_, _)
RunFrom(buf, i) ==
    IF i > Len(buf) \/ buf[i] = ESC THEN 0 ELSE 1 + RunFrom(buf, i + 1)

\* the reader cannot produce a segment from buf without reading more bytes
NeedMore(buf) ==
    IF buf = <<>> THEN TRUE
    ELSE IF buf[1] # ESC THEN FALSE
    ELSE IF Len(buf) = 1 THEN TRUE
    ELSE buf[2] = "[" /\ FinalIndex(buf) = 0

\* the next Segment of a buffer for which ~NeedMore holds
NextSegment(buf) ==
    IF buf[1] # ESC
    THEN LET n == RunFrom(buf, 1)
         IN [kind |-> "text", raw |-> SubSeq(buf, 1, n), final |-> "", pbytes |-> <<>>,
             rest |-> SubSeq(buf, n + 1, Len(buf))]
    ELSE IF buf[2] # "["
    THEN LET n == 1 + RunFrom(buf, 2)
         IN [kind |-> "text", raw |-> SubSeq(buf, 1, n), final |-> "", pbytes |-> <<>>,
             rest |-> SubSeq(buf, n + 1, Len(buf))]
    ELSE LET f == FinalIndex(buf)
         IN [kind |-> "csi", raw |-> SubSeq(buf, 1, f), final |-> buf[f],
             pbytes |-> SubSeq(buf, 3, f - 1), rest |-> SubSeq(buf, f + 1, Len(buf))]

\* stream exhausted inside a sequence: the buffered raw bytes degrade to Text
TailSegment(buf) ==
    [kind |-> "text", raw |-> buf, final |-> "", pbytes |-> <<>>, rest |-> <<>>]

\* split the parameter bytes at ";"
RECURSIVE SplitParams(_, _)
SplitParams(bs, cur) ==
    IF bs = <<>> THEN <<cur>>
    ELSE IF Head(bs) = ";" THEN <<cur>> \o SplitParams(Tail(bs), <<>>)
    ELSE SplitParams(Tail(bs), Append(cur, Head(bs)))

RECURSIVE ParseNat(_, _)
ParseNat(ds, acc) ==
    IF ds = <<>> THEN acc ELSE ParseNat(Tail(ds), acc * 10 + DigitVal(Head(ds)))

\* CSI.IntParams: the ";"-separated integers, an empty field being 0
IntParams(pbytes) ==
    LET fields == SplitParams(pbytes, <<>>)
        good == \A i \in 1..Len(fields) : \A j \in 1..Len(fields[i]) : fields[i][j] \in DigitSet
    IN [ok |-> good,
        vals |-> IF good THEN [i \in 1..Len(fields) |-> ParseNat(fields[i], 0)] ELSE <<>>]

\* --------------------------------------------------- writerScanner, per segment
SaveCursor == <<ESC, "[", "s">>
RestoreCursor == <<ESC, "[", "u">>
Column1 == <<ESC, "[", "1", "G">>

\* a rewrite that forgets one of the two separator columns
RewriteCHANarrow(col, margin) == <<ESC, "[">> \o FormatInt(col + margin + 1) \o <<"G">>

\* col := params[0] + int(l.size.Load().margin) + 2; Sprintf("\033[%dG", col)
RewriteCHA(col, margin) == <<ESC, "[">> \o FormatInt(col + margin + ChaOffset) \o <<"G">>

\* a rewrite that redraws the prefix before it erases
RewriteELEraseLast(raw, prefix) == SaveCursor \o Column1 \o prefix \o raw \o RestoreCursor

\* erase in line with parameter 1 or 2
RewriteEL(raw, prefix) == SaveCursor \o raw \o Column1 \o prefix \o RestoreCursor

\* the Text a segment is turned into before it is written
Transform(sg, margin, prefix) ==
    IF sg.kind = "text" THEN sg.raw
    ELSE LET p == IntParams(sg.pbytes)
         IN IF ~p.ok \/ Len(p.vals) # 1 THEN sg.raw
            ELSE CASE sg.final = "G" -> RewriteCHA(p.vals[1], margin)
                   [] sg.final = "K" -> IF p.vals[1] = 1 \/ p.vals[1] = 2
                                        THEN RewriteEL(sg.raw, prefix)
                                        ELSE sg.raw
                   [] OTHER -> sg.raw

IsNewline(b) == b = CR \/ b = NL

\* one os.Stdout.Write: who wrote it and the bytes
W(src, data) == [src |-> src, data |-> data]

\* a loop body that writes a newline byte through at once and redraws the prefix
EmitByteEager(b, draw, newline, prefix) ==
    IF IsNewline(b)
    THEN [writes |-> <<W("newline", <<b>>), W("prefix", prefix)>>,
          draw |-> FALSE, newline |-> newline]
    ELSE [writes |-> (IF draw THEN <<W("prefix", prefix)>> ELSE <<>>) \o <<W("byte", <<b>>)>>,
          draw |-> FALSE, newline |-> newline]

\* the writes the loop body makes for byte b, and the loop state afterwards
EmitByte(b, draw, newline, prefix) ==
    IF IsNewline(b)
    THEN [writes |-> <<>>, draw |-> draw, newline |-> Append(newline, b)]
    ELSE [writes |-> (IF draw THEN <<W("prefix", prefix)>> ELSE <<>>)
                     \o Flatten([i \in 1..Len(newline) |->
                                   <<W("newline", <<newline[i]>>), W("prefix", prefix)>>])
                     \o <<W("byte", <<b>>)>>,
          draw |-> FALSE,
          newline |-> <<>>]


\* ================================================================== state
VARIABLES
    size,         \* EventSource[terminalSize]: the value Load returns
    stores,       \* resize notifications handled so far
    subscribed,   \* Exec's subscription is registered with the event source
    changes,      \* the subscription's channel: values published, not yet received
    chClosed,     \* the subscription's channel has been closed by Unsubscribe
    stored,       \* history: the values stored since Subscribe returned
    received,     \* history: the values the forwarder has received from the channel
    calls,        \* history: the leveled print calls made, and what each wrote
    cfg,          \* Logger.level (threshold), Logger.scope, isatty(stdout), WriterAt level
    input,        \* the bytes the writer's client (or the subprocess) writes before closing
    pipeData,     \* io.Pipe: the bytes of the Write in flight that no Read has taken yet
    wclosed,      \* io.Pipe: PipeWriter.Close has been called
    rclosed,      \* io.Pipe: PipeReader.Close has been called
    cpc,          \* the client of the writer: "idle", "writing", "closewait"
    sent,         \* number of input bytes passed to Write calls
    acked,        \* number of input bytes passed to Write calls that have returned
    writes,       \* Write calls made
    closeCalls,   \* Close calls started
    closes,       \* Close calls returned
    ackedAtClose, \* value of acked when the first Close was called
    wpc,          \* writerScanner: "none", "read", "emit", "warn", "exit", "wgdone", "done"
    rbuf,         \* csi.Reader: bytes read from the pipe, not yet returned as a segment
    taken,        \* number of bytes the reader has read from the pipe
    cur,          \* the segment being written: what was read and the Text it became
    pos,          \* index in cur.text of the next byte of the loop
    drawPrefix,   \* writerScanner's drawPrefix
    newline,      \* writerScanner's newline buffer
    wg,           \* the sync.WaitGroup counter of pipeWait
    out,          \* every os.Stdout.Write so far, in order
    segOut,       \* the writes made for the current segment
    texts,        \* the Texts of all segments so far, concatenated
    epc,          \* Exec's position; "idle" when no Exec is running
    result,       \* Exec's return value
    loaded,       \* Exec's local variable size (line 250)
    winsz,        \* the pseudo-terminal's window size
    sized,        \* every pty.Setsize so far: the geometry used and the Winsize set
    pOpen,        \* the pty master p is open
    tOpen,        \* Exec's descriptor of the pty slave t is open
    ptyBuf,       \* bytes the subprocess wrote that no read of p has returned yet
    sub,          \* the subprocess: "none", "running", "exited"
    exitStatus,   \* its exit status
    subSent,      \* number of input bytes the subprocess has written
    cop,          \* the io.Copy goroutine: "none", "read", "write", "writing", "done"
    cbuf,         \* the bytes io.Copy read last
    fwd           \* the resize forwarder goroutine: "none", "run", "done"

esVars == <<size, stores, subscribed, changes, chClosed, stored, received>>
pipeVars == <<pipeData, wclosed, rclosed>>
clientVars == <<cpc, sent, acked, writes, closeCalls, closes, ackedAtClose>>
workerVars == <<wpc, rbuf, taken, cur, pos, drawPrefix, newline, wg, out, segOut, texts>>
mainVars == <<epc, result, loaded>>
ptyVars == <<winsz, sized, pOpen, tOpen, ptyBuf>>
subVars == <<sub, exitStatus, subSent>>
copVars == <<cop, cbuf>>
execVars == <<mainVars, ptyVars, subVars, copVars, fwd>>
vars == <<esVars, cfg, input, calls, pipeVars, clientVars, workerVars, execVars>>

OutBytes == Flatten([i \in 1..Len(out) |-> out[i].data])
SegBytes == Flatten([i \in 1..Len(segOut) |-> segOut[i].data])

\* l.getPrefix(level) of the writer, at the margin Load returns now
Prefix == getPrefix(cfg.threshold, cfg.scope, cfg.tty, size.margin, cfg.wlevel)

\* ------------------------------------------------------------ input sets
Widths == {80, 85}
Heights == {25}
\* terminal sizes syncTermSize can store: term.GetSize's answer, or the default
StoredSizes == {SizeFor(w, h) : w \in Widths, h \in Heights} \cup {DefaultSize}

LongScope == <<"c", "m", "d", "/", "t", "o", "o", "l", "/", "m", "a", "i", "n", ".", "g", "o", "%">>
Configs ==
    { [threshold |-> LogLevelTrace, scope |-> <<>>, tty |-> TRUE, wlevel |-> LogLevelInfo],
      [threshold |-> LogLevelInfo, scope |-> <<"x">>, tty |-> TRUE, wlevel |-> LogLevelError],
      [threshold |-> LogLevelWarn, scope |-> <<"x">>, tty |-> TRUE, wlevel |-> LogLevelInfo],
      [threshold |-> LogLevelTrace, scope |-> LongScope, tty |-> FALSE, wlevel |-> LogLevelNotice] }

TextItems == { <<"a">>, <<NL>>, <<CR>> }
CsiItems ==
    { <<ESC, "[", "5", "G">>,            \* cursor horizontal absolute, one parameter
      <<ESC, "[", "G">>,                 \* ... with an empty parameter field
      <<ESC, "[", "1", ";", "2", "G">>,  \* ... with two parameters
      <<ESC, "[", "1", "K">>,            \* erase to start of line
      <<ESC, "[", "2", "K">>,            \* erase entire line
      <<ESC, "[", "0", "K">>,            \* erase to end of line
      <<ESC, "[", "3", "1", "m">>,       \* a sequence that is not intercepted
      <<ESC, "[", "?", "K">>,            \* a parameter that is no integer
      <<ESC, "[", NL, "K">>,             \* ... and is a newline byte
      <<ESC, "[", "1">>,                 \* no final byte
      <<ESC, "a">> }                     \* an escape that is no control sequence
Items == TextItems \cup CsiItems

RECURSIVE StreamsOf(_, _)
StreamsOf(items, n) ==
    IF n = 0 THEN {<<>>}
    ELSE LET shorter == StreamsOf(items, n - 1)
         IN shorter \cup {s \o it : s \in shorter, it \in items}
Streams == StreamsOf(Items, MaxItems)

NoSegment == [kind |-> "none", raw |-> <<>>, final |-> "", pbytes |-> <<>>,
              margin |-> 0, prefix |-> <<>>, text |-> <<>>]

\* ------------------------------------------------------------------ Init
\* NewLogger has run (syncTermSize stored the first size) and WriterAt has
\* returned: the pipe exists, wg.Add(1) is done and writerScanner is started.
NoWinsize == [rows |-> 0, cols |-> 0]

\* Exec's state before pty.Open, at position pc ("idle": no Exec is running)
ExecInit(pc) ==
    /\ epc = pc
    /\ result = "none"
    /\ loaded = DefaultSize
    /\ winsz = NoWinsize
    /\ sized = <<>>
    /\ pOpen = FALSE
    /\ tOpen = FALSE
    /\ ptyBuf = <<>>
    /\ sub = "none"
    /\ exitStatus = 0
    /\ subSent = 0
    /\ cop = "none"
    /\ cbuf = <<>>
    /\ fwd = "none"

\* NewLogger: eventsource.New and the first Store of syncTermSize
EventSourceInit(sizes) ==
    /\ size \in sizes
    /\ stores = 0
    /\ subscribed = FALSE
    /\ changes = <<>>
    /\ chClosed = FALSE
    /\ stored = <<>>
    /\ received = <<>>
    /\ calls = <<>>

\* the writer's pipe, client and worker: after WriterAt when started, absent
\* otherwise
WriterInit(started) ==
    /\ pipeData = <<>>
    /\ wclosed = FALSE
    /\ rclosed = FALSE
    /\ cpc = "idle"
    /\ sent = 0
    /\ acked = 0
    /\ writes = 0
    /\ closeCalls = 0
    /\ closes = 0
    /\ ackedAtClose = 0
    /\ wpc = IF started THEN "read" ELSE "none"
    /\ rbuf = <<>>
    /\ taken = 0
    /\ cur = NoSegment
    /\ pos = 1
    /\ drawPrefix = TRUE
    /\ newline = <<>>
    /\ wg = IF started THEN 1 ELSE 0
    /\ out = <<>>
    /\ segOut = <<>>
    /\ texts = <<>>

\* NewLogger has run (syncTermSize stored the first size) and WriterAt has
\* returned: the pipe exists, wg.Add(1) is done and writerScanner is started.
Init ==
    /\ ExecInit("idle")
    /\ EventSourceInit(StoredSizes)
    /\ cfg \in Configs
    /\ input \in Streams
    /\ WriterInit(TRUE)

\* ------------------------------------------------- syncTermSize: the watcher
\* a delivery that keeps only the newest value that was not received yet
PublishLatest(ch, v) == IF subscribed /\ ~chClosed THEN <<v>> ELSE ch

\* EventSource.Store: the value is sent to the channel of every subscription
Publish(ch, v) == IF subscribed /\ ~chClosed THEN Append(ch, v) ELSE ch

\* l.size.Store(v)
Store(v) ==
    /\ size' = v
    /\ changes' = Publish(changes, v)
    /\ stored' = IF subscribed THEN Append(stored, v) ELSE stored

\* one SIGWINCH for which term.GetSize answers (w, h), while fewer than
\* limit of them have been handled
Resized(w, h, limit) ==
    /\ stores < limit
    /\ Store(SizeFor(w, h))
    /\ stores' = stores + 1
    /\ UNCHANGED <<execVars, subscribed, chClosed, received, cfg, input, calls, pipeVars,
                   clientVars, workerVars>>

Winch(w, h) == Resized(w, h, MaxStores)

\* ------------------------------------------------ the client of the writer
\* PipeWriter.Write(chunk): hand the bytes to the pipe and block
Write(n) ==
    /\ cpc = "idle"
    /\ ~wclosed
    /\ sent + n <= Len(input)
    /\ writes + 1 < MaxWrites \/ sent + n = Len(input)
    /\ pipeData' = SubSeq(input, sent + 1, sent + n)
    /\ sent' = sent + n
    /\ writes' = writes + 1
    /\ cpc' = "writing"
    /\ UNCHANGED <<execVars, esVars, cfg, input, calls, wclosed, rclosed, acked, closeCalls, closes,
                   ackedAtClose, workerVars>>

\* ... Write returns when the reader has taken every byte
WriteReturn ==
    /\ cpc = "writing"
    /\ pipeData = <<>>
    /\ acked' = sent
    /\ cpc' = "idle"
    /\ UNCHANGED <<execVars, esVars, cfg, input, calls, pipeVars, sent, writes, closeCalls, closes,
                   ackedAtClose, workerVars>>

\* a Close that does not wait for the worker
WgWaitNever(n) == TRUE

\* wg.Wait() may return
WgWait(n) == n = 0

\* a PipeWriter.Close that leaves the pipe open
PipeWriterCloseNoop(c) == c

\* PipeWriter.Close: the pipe is closed for writing (idempotent); a Write in
\* flight is abandoned and the reader sees io.EOF from now on
PipeWriterClose(c) == TRUE

\* pipeWait.Close: p.PipeWriter.Close() ...
Close ==
    /\ cpc = "idle"
    /\ sent = Len(input)
    /\ closeCalls < MaxCloses
    /\ closeCalls = closes
    /\ wclosed' = PipeWriterClose(wclosed)
    /\ pipeData' = IF wclosed' THEN <<>> ELSE pipeData
    /\ closeCalls' = closeCalls + 1
    /\ ackedAtClose' = IF closeCalls = 0 THEN acked ELSE ackedAtClose
    /\ cpc' = "closewait"
    /\ UNCHANGED <<execVars, esVars, cfg, input, calls, rclosed, sent, acked, writes, closes, workerVars>>

\* a Close that consumes a one-shot completion signal instead of waiting on
\* a WaitGroup
CloseReturnOnce ==
    /\ cpc = "closewait"
    /\ wg = 0
    /\ wg' = 1
    /\ closes' = closes + 1
    /\ cpc' = "idle"
    /\ UNCHANGED <<execVars, esVars, cfg, input, calls, pipeVars, sent, acked, writes, closeCalls,
                   ackedAtClose, wpc, rbuf, taken, cur, pos, drawPrefix, newline, out,
                   segOut, texts>>

\* ... p.wg.Wait(); return err
CloseReturn ==
    /\ cpc = "closewait"
    /\ WgWait(wg)
    /\ closes' = closes + 1
    /\ cpc' = "idle"
    /\ UNCHANGED <<execVars, esVars, cfg, input, calls, pipeVars, sent, acked, writes, closeCalls,
                   ackedAtClose, workerVars>>

\* ---------------------------------------------------------- writerScanner
\* esc.Read() reads the bytes of the Write in flight from the pipe
ReadPipe ==
    /\ wpc = "read"
    /\ NeedMore(rbuf)
    /\ ~wclosed
    /\ pipeData # <<>>
    /\ rbuf' = rbuf \o pipeData
    /\ taken' = taken + Len(pipeData)
    /\ pipeData' = <<>>
    /\ UNCHANGED <<execVars, esVars, cfg, input, calls, wclosed, rclosed, clientVars,
                   wpc, cur, pos, drawPrefix, newline, wg, out, segOut, texts>>

\* esc.Read() returns a segment; lines 340-373 turn it into Text
Segment ==
    /\ wpc = "read"
    /\ IF NeedMore(rbuf) THEN rbuf # <<>> /\ wclosed ELSE TRUE
    /\ LET sg == IF NeedMore(rbuf) THEN TailSegment(rbuf) ELSE NextSegment(rbuf)
       IN /\ cur' = [kind |-> sg.kind, raw |-> sg.raw, final |-> sg.final,
                     pbytes |-> sg.pbytes, margin |-> size.margin, prefix |-> Prefix,
                     text |-> Transform(sg, size.margin, Prefix)]
          /\ rbuf' = sg.rest
          /\ texts' = texts \o Transform(sg, size.margin, Prefix)
    /\ pos' = 1
    /\ segOut' = <<>>
    /\ wpc' = "emit"
    /\ UNCHANGED <<execVars, esVars, cfg, input, calls, pipeVars, clientVars, taken, drawPrefix, newline,
                   wg, out>>

\* one iteration of the loop over the Text's bytes (lines 375-390)
Emit ==
    /\ wpc = "emit"
    /\ pos <= Len(cur.text)
    /\ LET e == EmitByte(cur.text[pos], drawPrefix, newline, Prefix)
       IN /\ out' = out \o e.writes
          /\ segOut' = segOut \o e.writes
          /\ drawPrefix' = e.draw
          /\ newline' = e.newline
    /\ pos' = pos + 1
    /\ wpc' = IF pos = Len(cur.text) THEN "read" ELSE "emit"
    /\ UNCHANGED <<execVars, esVars, cfg, input, calls, pipeVars, clientVars, rbuf, taken, cur, wg, texts>>

\* esc.Read() returns io.EOF: os.Stdout.Write(newline); return
EndOfStream ==
    /\ wpc = "read"
    /\ rbuf = <<>>
    /\ wclosed
    /\ out' = Append(out, W("flush", newline))
    /\ wpc' = "exit"
    /\ UNCHANGED <<execVars, esVars, cfg, input, calls, pipeVars, clientVars, rbuf, taken, cur, pos,
                   drawPrefix, newline, wg, segOut, texts>>

\* a worker that returns without signalling the WaitGroup
WgDoneNever(n) == n

\* deferred wg.Done()
WgDone(n) == n - 1

WorkerDone ==
    /\ wpc = "exit"
    /\ wg' = WgDone(wg)
    /\ wpc' = "wgdone"
    /\ UNCHANGED <<execVars, esVars, cfg, input, calls, pipeVars, clientVars, rbuf, taken, cur, pos,
                   drawPrefix, newline, out, segOut, texts>>

\* deferred r.Close()
WorkerCloseReader ==
    /\ wpc = "wgdone"
    /\ rclosed' = TRUE
    /\ wpc' = "done"
    /\ UNCHANGED <<execVars, esVars, cfg, input, calls, pipeData, wclosed, clientVars, rbuf, taken, cur,
                   pos, drawPrefix, newline, wg, out, segOut, texts>>

Worker == ReadPipe \/ Segment \/ Emit \/ EndOfStream \/ WorkerDone \/ WorkerCloseReader

Client == (\E n \in 1..Len(input) : Write(n)) \/ WriteReturn \/ Close \/ CloseReturn

Watcher == \E w \in Widths, h \in Heights : Winch(w, h)

Next == Client \/ Worker \/ Watcher

Spec == Init /\ [][Next]_vars

\* ================================================================== Exec
ExecWidths == {16, 85}
ExecSizes == {SizeFor(w, h) : w \in ExecWidths, h \in Heights} \cup {DefaultSize}
ExitStatuses == {0, 1}
\* Exec logs through the logger it is called on and writes at LogLevelInfo
ExecConfigs == {c \in Configs : c.wlevel = LogLevelInfo /\ c.scope = <<>>}
ExecStreams == StreamsOf({<<"a">>, <<NL>>}, MaxExecItems)

\* NewLogger has run and Exec has been called with a one-line command.
InitExec ==
    /\ ExecInit("notice")
    /\ EventSourceInit(ExecSizes)
    /\ cfg \in ExecConfigs
    /\ input \in ExecStreams
    /\ WriterInit(FALSE)

\* a logf without the threshold test
logfUnfiltered(level, msg) ==
    << W("logprefix", getPrefix(cfg.threshold, cfg.scope, cfg.tty, size.margin, level)),
       W("log", msg \o Reset \o <<NL>>) >>

\* l.logf(level, ...): nothing below the threshold, else the prefix and the
\* formatted message followed by the reset code and a newline
logf(level, msg) ==
    IF cfg.threshold > level THEN <<>>
    ELSE << W("logprefix", getPrefix(cfg.threshold, cfg.scope, cfg.tty, size.margin, level)),
            W("log", msg \o Reset \o <<NL>>) >>

\* the record of one logf call made after n writes: its arguments and the
\* writes it made
LoggedAt(n, level, msg) ==
    Append(calls, [level |-> level, msg |-> msg, from |-> n,
                   to |-> n + Len(logf(level, msg))])
Logged(level, msg) == LoggedAt(Len(out), level, msg)

\* l.Noticef("$ %s", line)
ExecNotice ==
    /\ epc = "notice"
    /\ out' = out \o logf(LogLevelNotice, <<"$", " ", "c", "m", "d">>)
    /\ calls' = Logged(LogLevelNotice, <<"$", " ", "c", "m", "d">>)
    /\ epc' = "open"
    /\ UNCHANGED <<esVars, cfg, input, pipeVars, clientVars, wpc, rbuf, taken, cur, pos,
                   drawPrefix, newline, wg, segOut, texts, result, loaded, ptyVars,
                   subVars, copVars, fwd>>

\* p, t, err := pty.Open(); if err != nil { return err }
ExecOpen(ok) ==
    /\ epc = "open"
    /\ IF ok
       THEN /\ pOpen' = TRUE /\ tOpen' = TRUE
            /\ epc' = "subscribe"
            /\ UNCHANGED result
       ELSE /\ epc' = "returned"
            /\ result' = "openerr"
            /\ UNCHANGED <<pOpen, tOpen>>
    /\ UNCHANGED <<esVars, cfg, input, calls, pipeVars, clientVars, workerVars, loaded, winsz,
                   sized, ptyBuf, subVars, copVars, fwd>>

\* changes := l.size.Subscribe(nil)
ExecSubscribe ==
    /\ epc = "subscribe"
    /\ subscribed' = TRUE
    /\ epc' = "load"
    /\ UNCHANGED <<size, stores, changes, chClosed, stored, received, cfg, input, calls, pipeVars, clientVars,
                   workerVars, result, loaded, ptyVars, subVars, copVars, fwd>>

\* size := l.size.Load()
ExecLoad ==
    /\ epc = "load"
    /\ loaded' = size
    /\ epc' = "setsize"
    /\ UNCHANGED <<esVars, cfg, input, calls, pipeVars, clientVars, workerVars, result, ptyVars,
                   subVars, copVars, fwd>>

\* one pty.Setsize: the geometry it was computed from and the Winsize it sets
Sizing(rows, width, margin) ==
    [width |-> width, margin |-> margin, height |-> rows,
     win |-> Winsize(rows, width, margin)]

\* pty.Setsize(p, {Rows: size.height, Cols: size.width - (l.size.Load().margin + 1)})
ExecSetsize ==
    /\ epc = "setsize"
    /\ winsz' = Winsize(loaded.height, loaded.width, size.margin)
    /\ sized' = Append(sized, Sizing(loaded.height, loaded.width, size.margin))
    /\ epc' = "goforward"
    /\ UNCHANGED <<esVars, cfg, input, calls, pipeVars, clientVars, workerVars, result, loaded,
                   pOpen, tOpen, ptyBuf, subVars, copVars, fwd>>

\* go func() { for size := range changes { ... } }()
ExecGoForward ==
    /\ epc = "goforward"
    /\ fwd' = "run"
    /\ epc' = "writerat"
    /\ UNCHANGED <<esVars, cfg, input, calls, pipeVars, clientVars, workerVars, result, loaded,
                   ptyVars, subVars, copVars>>

\* lw := l.WriterAt(LogLevelInfo): io.Pipe(), wg.Add(1), go l.writerScanner(...)
ExecWriterAt ==
    /\ epc = "writerat"
    /\ wg' = wg + 1
    /\ wpc' = "read"
    /\ epc' = "start"
    /\ UNCHANGED <<esVars, cfg, input, calls, pipeVars, clientVars, rbuf, taken, cur, pos,
                   drawPrefix, newline, out, segOut, texts, result, loaded, ptyVars,
                   subVars, copVars, fwd>>

\* a start failure that returns without running the deferred calls
ExecStartBare(ok) ==
    /\ epc = "start"
    /\ IF ok
       THEN /\ sub' = "running"
            /\ epc' = "gocopy"
            /\ UNCHANGED result
       ELSE /\ result' = "starterr"
            /\ epc' = "returned"
            /\ UNCHANGED sub
    /\ UNCHANGED <<esVars, cfg, input, calls, pipeVars, clientVars, workerVars, loaded, ptyVars,
                   exitStatus, subSent, copVars, fwd>>

\* if err := cmd.Start(); err != nil { return err }
ExecStart(ok) ==
    /\ epc = "start"
    /\ IF ok
       THEN /\ sub' = "running"
            /\ epc' = "gocopy"
            /\ UNCHANGED result
       ELSE /\ result' = "starterr"
            /\ epc' = "d_lwclose"
            /\ UNCHANGED sub
    /\ UNCHANGED <<esVars, cfg, input, calls, pipeVars, clientVars, workerVars, loaded, ptyVars,
                   exitStatus, subSent, copVars, fwd>>

\* go io.Copy(lw, p)
ExecGoCopy ==
    /\ epc = "gocopy"
    /\ cop' = "read"
    /\ epc' = "wait"
    /\ UNCHANGED <<esVars, cfg, input, calls, pipeVars, clientVars, workerVars, result, loaded,
                   ptyVars, subVars, cbuf, fwd>>

\* the error cmd.Wait returns for an exit status
WaitError(status) == IF status = 0 THEN "nil" ELSE "exiterr"

\* return cmd.Wait()
ExecWait ==
    /\ epc = "wait"
    /\ sub = "exited"
    /\ result' = WaitError(exitStatus)
    /\ epc' = "d_lwclose"
    /\ UNCHANGED <<esVars, cfg, input, calls, pipeVars, clientVars, workerVars, loaded, ptyVars,
                   subVars, copVars, fwd>>

\* deferred lw.Close(): p.PipeWriter.Close() ...
ExecCloseWriter ==
    /\ epc = "d_lwclose"
    /\ wclosed' = PipeWriterClose(wclosed)
    /\ pipeData' = IF wclosed' THEN <<>> ELSE pipeData
    /\ closeCalls' = closeCalls + 1
    /\ ackedAtClose' = acked
    /\ epc' = "d_lwwait"
    /\ UNCHANGED <<esVars, cfg, input, calls, rclosed, cpc, sent, acked, writes, closes,
                   workerVars, result, loaded, ptyVars, subVars, copVars, fwd>>

\* ... p.wg.Wait()
ExecCloseWait ==
    /\ epc = "d_lwwait"
    /\ WgWait(wg)
    /\ closes' = closes + 1
    /\ epc' = "d_pclose"
    /\ UNCHANGED <<esVars, cfg, input, calls, pipeVars, cpc, sent, acked, writes, closeCalls,
                   ackedAtClose, workerVars, result, loaded, ptyVars, subVars, copVars, fwd>>

\* deferred p.Close()
ExecCloseMaster ==
    /\ epc = "d_pclose"
    /\ pOpen' = FALSE
    /\ epc' = "d_tclose"
    /\ UNCHANGED <<esVars, cfg, input, calls, pipeVars, clientVars, workerVars, result, loaded,
                   winsz, sized, tOpen, ptyBuf, subVars, copVars, fwd>>

\* deferred t.Close()
ExecCloseSlave ==
    /\ epc = "d_tclose"
    /\ tOpen' = FALSE
    /\ epc' = "d_unsub"
    /\ UNCHANGED <<esVars, cfg, input, calls, pipeVars, clientVars, workerVars, result, loaded,
                   winsz, sized, pOpen, ptyBuf, subVars, copVars, fwd>>

\* an Unsubscribe that deregisters the channel and leaves it open
ExecUnsubscribeOpen ==
    /\ epc = "d_unsub"
    /\ subscribed' = FALSE
    /\ epc' = "returned"
    /\ UNCHANGED <<size, stores, changes, chClosed, stored, received, cfg, input, calls, pipeVars,
                   clientVars, workerVars, result, loaded, ptyVars, subVars, copVars, fwd>>

\* deferred l.size.Unsubscribe(changes); Exec returns
ExecUnsubscribe ==
    /\ epc = "d_unsub"
    /\ subscribed' = FALSE
    /\ chClosed' = TRUE
    /\ epc' = "returned"
    /\ UNCHANGED <<size, stores, changes, stored, received, cfg, input, calls, pipeVars, clientVars, workerVars,
                   result, loaded, ptyVars, subVars, copVars, fwd>>

\* the subprocess writes n more bytes to its terminal
SubWrite(n) ==
    /\ sub = "running"
    /\ subSent + n <= Len(input)
    /\ ptyBuf' = ptyBuf \o SubSeq(input, subSent + 1, subSent + n)
    /\ subSent' = subSent + n
    /\ UNCHANGED <<esVars, cfg, input, calls, pipeVars, clientVars, workerVars, mainVars, winsz,
                   sized, pOpen, tOpen, sub, exitStatus, copVars, fwd>>

\* the subprocess exits
SubExit(status) ==
    /\ sub = "running"
    /\ subSent = Len(input)
    /\ sub' = "exited"
    /\ exitStatus' = status
    /\ UNCHANGED <<esVars, cfg, input, calls, pipeVars, clientVars, workerVars, mainVars, ptyVars,
                   subSent, copVars, fwd>>

\* io.Copy: p.Read returns the bytes the pty holds
CopyRead ==
    /\ cop = "read"
    /\ pOpen
    /\ ptyBuf # <<>>
    /\ cbuf' = ptyBuf
    /\ ptyBuf' = <<>>
    /\ cop' = "write"
    /\ UNCHANGED <<esVars, cfg, input, calls, pipeVars, clientVars, workerVars, mainVars, winsz,
                   sized, pOpen, tOpen, subVars, fwd>>

\* io.Copy: p.Read fails (p closed, or every descriptor of the slave closed
\* and nothing left to read) and io.Copy returns
CopyReadError ==
    /\ cop = "read"
    /\ \/ ~pOpen
       \/ ptyBuf = <<>> /\ sub # "running" /\ ~tOpen
    /\ cop' = "done"
    /\ UNCHANGED <<esVars, cfg, input, calls, pipeVars, clientVars, workerVars, mainVars, ptyVars,
                   subVars, cbuf, fwd>>

\* io.Copy: lw.Write(buf) hands the bytes to the pipe, or fails with
\* io.ErrClosedPipe and io.Copy returns
CopyWrite ==
    /\ cop = "write"
    /\ IF wclosed
       THEN /\ cop' = "done"
            /\ UNCHANGED <<pipeData, sent, writes>>
       ELSE /\ pipeData' = cbuf
            /\ sent' = sent + Len(cbuf)
            /\ writes' = writes + 1
            /\ cop' = "writing"
    /\ UNCHANGED <<esVars, cfg, input, calls, wclosed, rclosed, cpc, acked, closeCalls, closes,
                   ackedAtClose, workerVars, mainVars, ptyVars, subVars, cbuf, fwd>>

\* io.Copy: lw.Write returns, the reader having taken every byte
CopyWriteReturn ==
    /\ cop = "writing"
    /\ pipeData = <<>>
    /\ taken = sent
    /\ acked' = sent
    /\ cop' = "read"
    /\ UNCHANGED <<esVars, cfg, input, calls, pipeVars, cpc, sent, writes, closeCalls, closes,
                   ackedAtClose, workerVars, mainVars, ptyVars, subVars, cbuf, fwd>>

\* io.Copy: lw.Write is abandoned by PipeWriter.Close and io.Copy returns
CopyWriteAbort ==
    /\ cop = "writing"
    /\ wclosed
    /\ taken < sent
    /\ cop' = "done"
    /\ UNCHANGED <<esVars, cfg, input, calls, pipeVars, clientVars, workerVars, mainVars, ptyVars,
                   subVars, cbuf, fwd>>

\* a forwarder that skips a size when a newer one is already waiting
ForwardNewest ==
    /\ fwd = "run"
    /\ changes # <<>>
    /\ LET g == Head(changes)
       IN IF pOpen /\ Len(changes) = 1
          THEN /\ winsz' = Winsize(g.height, g.width, g.margin)
               /\ sized' = Append(sized, Sizing(g.height, g.width, g.margin))
          ELSE UNCHANGED <<winsz, sized>>
    /\ changes' = Tail(changes)
    /\ received' = Append(received, Head(changes))
    /\ UNCHANGED <<size, stores, subscribed, chClosed, stored, cfg, input, calls, pipeVars,
                   clientVars, workerVars, mainVars, pOpen, tOpen, ptyBuf, subVars, copVars, fwd>>

\* the forwarder receives a size and resizes the pty (lines 254-256)
Forward ==
    /\ fwd = "run"
    /\ changes # <<>>
    /\ LET g == Head(changes)
       IN IF pOpen
          THEN /\ winsz' = Winsize(g.height, g.width, g.margin)
               /\ sized' = Append(sized, Sizing(g.height, g.width, g.margin))
          ELSE UNCHANGED <<winsz, sized>>
    /\ changes' = Tail(changes)
    /\ received' = Append(received, Head(changes))
    /\ UNCHANGED <<size, stores, subscribed, chClosed, stored, cfg, input, calls, pipeVars, clientVars,
                   workerVars, mainVars, pOpen, tOpen, ptyBuf, subVars, copVars, fwd>>

\* the forwarder's range loop ends: the channel is closed and drained
ForwardEnd ==
    /\ fwd = "run"
    /\ changes = <<>>
    /\ chClosed
    /\ fwd' = "done"
    /\ UNCHANGED <<esVars, cfg, input, calls, pipeVars, clientVars, workerVars, mainVars, ptyVars,
                   subVars, copVars>>

ExecMain ==
    \/ ExecNotice \/ (\E ok \in BOOLEAN : ExecOpen(ok)) \/ ExecSubscribe \/ ExecLoad
    \/ ExecSetsize \/ ExecGoForward \/ ExecWriterAt \/ (\E ok \in BOOLEAN : ExecStart(ok))
    \/ ExecGoCopy \/ ExecWait \/ ExecCloseWriter \/ ExecCloseWait \/ ExecCloseMaster
    \/ ExecCloseSlave \/ ExecUnsubscribe

Subprocess == (\E n \in 1..Len(input) : SubWrite(n)) \/ (\E st \in ExitStatuses : SubExit(st))

Copier == CopyRead \/ CopyReadError \/ CopyWrite \/ CopyWriteReturn \/ CopyWriteAbort

Forwarder == Forward \/ ForwardEnd

ExecWatcher == \E w \in ExecWidths, h \in Heights : Winch(w, h)

NextExec == ExecMain \/ Subprocess \/ Copier \/ Forwarder \/ Worker \/ ExecWatcher

SpecExec == InitExec /\ [][NextExec]_vars

\* every goroutine that can take a step eventually takes one; the subprocess
\* and the terminal (the watcher) are under no obligation
FairExec ==
    /\ SpecExec
    /\ WF_vars(ExecMain) /\ WF_vars(Copier) /\ WF_vars(Forwarder) /\ WF_vars(Worker)

\* Exec with up to MaxResizes resize notifications
ResizeWatcher == \E w \in ExecWidths, h \in Heights : Resized(w, h, MaxResizes)

NextResize == ExecMain \/ Subprocess \/ Copier \/ Forwarder \/ Worker \/ ResizeWatcher

\* NewLogger has run on an 80x25 terminal and Exec has been called for a
\* subprocess that writes one byte
InitResize ==
    /\ ExecInit("notice")
    /\ EventSourceInit({DefaultSize})
    /\ cfg \in ExecConfigs
    /\ input = <<"a">>
    /\ WriterInit(FALSE)

SpecResize == InitResize /\ [][NextResize]_vars

FairResize ==
    /\ SpecResize
    /\ WF_vars(ExecMain) /\ WF_vars(Copier) /\ WF_vars(Forwarder) /\ WF_vars(Worker)

\* ========================================================= syncTermSize
\* widths and heights term.GetSize can report
TermWidths == {0, 1, 15, 16, 17, 79, 80, 81, 85, 100, 65535}
TermHeights == {0, 1, 24, 25, 50, 65535}
TermSizes == {SizeFor(w, h) : w \in TermWidths, h \in TermHeights} \cup {DefaultSize}

\* NewLogger has returned; only the SIGWINCH watcher runs
InitSize ==
    /\ ExecInit("idle")
    /\ EventSourceInit(TermSizes)
    /\ cfg \in ExecConfigs
    /\ input = <<>>
    /\ WriterInit(FALSE)

NextSize == \E w \in TermWidths, h \in TermHeights : Winch(w, h)

SpecSize == InitSize /\ [][NextSize]_vars

\* ================================================== leveled print operations
\* every threshold NewLogger can be given, with and without a scope
LogConfigs ==
    [threshold : LogLevels, scope : {<<>>, <<"x">>}, tty : BOOLEAN, wlevel : {LogLevelInfo}]
\* formatted messages
Messages == { <<"h", "i">>, <<>> }

\* NewLogger has returned; the program only prints through the logger
InitLog ==
    /\ ExecInit("idle")
    /\ EventSourceInit(StoredSizes)
    /\ cfg \in LogConfigs
    /\ input = <<>>
    /\ WriterInit(FALSE)

\* Tracef, Debugf, Infof, Noticef, Warnf, Errorf: l.logf(level, format, args...)
Printf(level, msg) ==
    /\ Len(calls) < MaxPrints
    /\ out' = out \o logf(level, msg)
    /\ calls' = Logged(level, msg)
    /\ UNCHANGED <<esVars, cfg, input, pipeVars, clientVars, wpc, rbuf, taken, cur, pos,
                   drawPrefix, newline, wg, segOut, texts, execVars>>

NextLog ==
    \/ \E level \in LogLevels, msg \in Messages : Printf(level, msg)
    \/ Watcher

SpecLog == InitLog /\ [][NextLog]_vars

\* ========================================== writerScanner with read errors
\* the formatted message of l.Warnf("error reading CSI sequence: %s", err)
ReadErrorMessage == <<"e", "r", "r">>
FaultConfigs ==
    Configs \cup {[threshold |-> LogLevelError, scope |-> <<"x">>, tty |-> TRUE,
                   wlevel |-> LogLevelError]}
FaultStreams == StreamsOf(TextItems, MaxItems)

\* WriterAt has returned
InitFault ==
    /\ ExecInit("idle")
    /\ EventSourceInit({DefaultSize})
    /\ cfg \in FaultConfigs
    /\ input \in FaultStreams
    /\ WriterInit(TRUE)

\* esc.Read() fails with an error that is neither io.EOF nor
\* io.ErrClosedPipe: os.Stdout.Write(newline) ...
ReadError ==
    /\ wpc = "read"
    /\ out' = Append(out, W("flush", newline))
    /\ wpc' = "warn"
    /\ UNCHANGED <<execVars, esVars, cfg, input, calls, pipeVars, clientVars, rbuf, taken, cur,
                   pos, drawPrefix, newline, wg, segOut, texts>>

\* ... l.Warnf("error reading CSI sequence: %s", err); return
WarnReadError ==
    /\ wpc = "warn"
    /\ out' = out \o logf(LogLevelWarn, ReadErrorMessage)
    /\ calls' = Logged(LogLevelWarn, ReadErrorMessage)
    /\ wpc' = "exit"
    /\ UNCHANGED <<execVars, esVars, cfg, input, pipeVars, clientVars, rbuf, taken, cur,
                   pos, drawPrefix, newline, wg, segOut, texts>>

\* a Write on a pipe whose reader is closed fails with io.ErrClosedPipe
WriteFail ==
    /\ cpc = "writing"
    /\ rclosed
    /\ pipeData' = <<>>
    /\ cpc' = "idle"
    /\ UNCHANGED <<execVars, esVars, cfg, input, calls, wclosed, rclosed, sent, acked, writes,
                   closeCalls, closes, ackedAtClose, workerVars>>

FaultyWorker == Worker \/ ReadError \/ WarnReadError

NextFault == Client \/ WriteFail \/ FaultyWorker

SpecFault == InitFault /\ [][NextFault]_vars

\* the worker goroutine keeps running, and a Close that can return does
FairFault == SpecFault /\ WF_vars(FaultyWorker) /\ WF_vars(CloseReturn)

\* ============================================================ properties
Plain(s) == \A i \in 1..Len(s) : s[i] # ESC
CountNL(s) == Cardinality({i \in 1..Len(s) : s[i] = NL})
\* index of the last byte that is neither \r nor \n, or 0
LastVisible(s) ==
    LET vis == {i \in 1..Len(s) : ~IsNewline(s[i])}
    IN IF vis = {} THEN 0 ELSE CHOOSE i \in vis : \A j \in vis : j <= i
PrefixWrites(o) == Cardinality({i \in 1..Len(o) : o[i].src = "prefix" /\ o[i].data # <<>>})
\* the bytes written that are no prefix
Content(o) ==
    Flatten([i \in 1..Len(o) |-> IF o[i].src = "prefix" THEN <<>> ELSE o[i].data])
\* the bytes written by the loop's os.Stdout.Write([]byte{b})
ByteWrites(o) ==
    Flatten([i \in 1..Len(o) |-> IF o[i].src = "byte" THEN o[i].data ELSE <<>>])
Passes == cfg.threshold <= cfg.wlevel
Closed == closes >= 1
\* the worker has written every byte of the current segment's Text
SegmentWritten == cur.kind # "none" /\ (wpc # "emit")
CurParams == IntParams(cur.pbytes)
SingleParam == cur.kind = "csi" /\ CurParams.ok /\ Len(CurParams.vals) = 1

\* C1 (as stated): a plain-text stream with k "\n" bytes, written and closed,
\* gets exactly k+1 prefixes (stated here for the streams that have a visible
\* byte and a writer whose level passes the threshold).
C1_Original ==
    (Closed /\ Plain(input) /\ Passes /\ LastVisible(input) > 0) =>
        PrefixWrites(out) = CountNL(input) + 1

\* C1 (amended): for a plain-text stream written to a writer whose level
\* passes the threshold and then closed, the transformer writes the prefix
\* once when the first byte that is neither \r nor \n arrives (it is the
\* first thing written) and once immediately after every \r or \n byte that
\* such a byte follows; the \r and \n bytes at the end of the stream are
\* written last, with no prefix after them, and a stream without a visible
\* byte gets no prefix.
C1_Amended ==
    (Closed /\ Plain(input) /\ Passes) =>
        LET lv == LastVisible(input)
        IN /\ PrefixWrites(out) =
                 IF lv = 0 THEN 0
                 ELSE 1 + Cardinality({i \in 1..lv : IsNewline(input[i])})
           /\ out[Len(out)] = W("flush", SubSeq(input, lv + 1, Len(input)))
           /\ lv > 0 => out[1].src = "prefix"
           /\ \A i \in 1..Len(out) :
                 /\ out[i].src = "prefix" =>
                       /\ i < Len(out)
                       /\ out[i + 1].src \in {"byte", "newline"}
                       /\ out[i].data # <<>>
                 /\ out[i].src = "newline" => out[i + 1].src = "prefix"

C1_Witness ==
    /\ Closed /\ Plain(input) /\ Passes
    /\ Len(input) = 2 /\ input[1] = "a" /\ input[2] = NL
    /\ PrefixWrites(out) = 1

\* C3: when Close has returned, the worker has taken every byte of the Writes
\* that returned before Close was called, has written the Text of every
\* segment of them and the buffered trailing newline bytes, and has signalled
\* completion; and it writes nothing once Close has returned.
C3_Drained ==
    /\ [](Closed =>
            /\ wpc \in {"wgdone", "done"}
            /\ taken = ackedAtClose /\ ackedAtClose = Len(input)
            /\ rbuf = <<>>
            /\ Content(out) = texts
            /\ (Plain(input) => Content(out) = input)
            /\ out[Len(out)] = W("flush", newline))
    /\ [][Closed => out' = out]_vars

C3_Witness ==
    /\ Closed /\ Len(input) >= 2 /\ input[Len(input)] = NL
    /\ out[Len(out)].data = <<NL>>
    /\ writes = 2

\* C4: a cursor-horizontal-absolute sequence with the single parameter c is
\* written as ESC [ <c + m + 2> G, m being the margin the size source held
\* when the segment was processed.
C4_CursorColumn ==
    (SegmentWritten /\ SingleParam /\ cur.final = "G") =>
        LET b == ByteWrites(segOut)
            o == NextSegment(b)
        IN /\ ~NeedMore(b)
           /\ o.kind = "csi" /\ o.final = "G" /\ o.rest = <<>>
           /\ IntParams(o.pbytes) =
                 [ok |-> TRUE, vals |-> <<CurParams.vals[1] + cur.margin + 2>>]
           /\ IsSuffix(b, SegBytes)

C4_Witness ==
    /\ SegmentWritten /\ SingleParam /\ cur.final = "G"
    /\ CurParams.vals = <<5>> /\ cur.margin = 17 /\ stores = 1
    /\ ByteWrites(segOut) = <<ESC, "[", "2", "4", "G">>

\* C5: an erase-in-line sequence with the single parameter 1 or 2 is written
\* as cursor-save, the sequence itself, ESC[1G, the writer's current prefix,
\* cursor-restore, in this order; with the parameter 0 it is written unchanged.
C5_EraseInLine ==
    (SegmentWritten /\ SingleParam /\ cur.final = "K") =>
        /\ ByteWrites(segOut) =
              IF CurParams.vals[1] \in {1, 2}
              THEN <<ESC, "[", "s">> \o cur.raw \o <<ESC, "[", "1", "G">>
                   \o cur.prefix \o <<ESC, "[", "u">>
              ELSE cur.raw
        /\ IsSuffix(ByteWrites(segOut), SegBytes)

C5_Witness ==
    /\ SegmentWritten /\ SingleParam /\ cur.final = "K"
    /\ CurParams.vals = <<2>> /\ Passes /\ cur.margin = 17
    /\ Len(ByteWrites(segOut)) > 20

\* C6 (as stated): a control sequence that is not intercepted (final byte
\* neither G nor K, or not exactly one integer parameter) is written
\* byte-identical to its input.
C6_Passthrough ==
    (SegmentWritten /\ cur.kind = "csi"
       /\ (~SingleParam \/ cur.final \notin {"G", "K"})) =>
        IsSuffix(cur.raw, SegBytes)

\* C10: a second Close never waits (the worker has already signalled
\* completion when it starts waiting), and nothing is written once the
\* second Close has been called.
C10_SecondClose ==
    /\ []((closeCalls = 2 /\ cpc = "closewait") => (WgWait(wg) /\ wclosed))
    /\ [][closeCalls = 2 => out' = out]_vars

C10_Witness == closes = 2 /\ Len(out) > 1

\* C2 (as stated): when the transformer is closed after the subprocess has
\* exited, the transformer has received every byte the subprocess wrote.
C2_NoOutputDropped ==
    (wclosed /\ sub = "exited") => taken = subSent

\* C7: once the subprocess has exited Exec returns, and it returns nil for
\* exit status 0 and the exit error otherwise.
C7_ExecReturns ==
    /\ (sub = "exited") ~> (epc = "returned")
    /\ []((epc = "returned" /\ sub = "exited") =>
            result = IF exitStatus = 0 THEN "nil" ELSE "exiterr")

C7_Witness ==
    /\ epc = "returned" /\ sub = "exited" /\ exitStatus = 1 /\ result = "exiterr"
    /\ stores = 1 /\ Len(input) = 1 /\ fwd = "done" /\ cop = "done" /\ wpc = "done"

\* C8 (as stated): every size stored in the event source has margin < width.
C8_MarginBelowWidth == size.margin < size.width

\* C9 (as stated): every pty.Setsize sets rows = height and
\* cols = width - margin - 1, as integers.
C9_PtyColumns ==
    \A i \in 1..Len(sized) :
        /\ sized[i].win.rows = sized[i].height
        /\ sized[i].win.cols = sized[i].width - sized[i].margin - 1

Last(s) == s[Len(s)]
BeforeSubscribe == epc \in {"notice", "open", "subscribe"}

\* C11: the subscriber receives exactly the values stored after its
\* Subscribe, each once and in store order (what it has received, followed by
\* what waits in its channel, is the sequence of values stored since), it
\* receives nothing stored before, and Load returns the value stored last.
C11_Delivery ==
    /\ received \o changes = stored
    /\ BeforeSubscribe => (received = <<>> /\ changes = <<>>)
    /\ (subscribed /\ stored # <<>>) => size = Last(stored)

C11_Witness ==
    /\ received = <<SizeFor(85, 25), SizeFor(16, 25)>>
    /\ size = SizeFor(16, 25) /\ subscribed
    /\ Len(sized) = 3

Returned == epc = "returned"
WorkerTerminated == wpc \in {"wgdone", "done"}

\* C12 (as stated): when Exec returns a set-up error (pty allocation or
\* subprocess start), no background task has been started.
C12_Original ==
    (Returned /\ result \in {"openerr", "starterr"}) =>
        (fwd = "none" /\ wpc = "none" /\ cop = "none")

\* C12 (amended): when pty allocation fails Exec returns the error and no
\* background task has been started; when the subprocess fails to start Exec
\* returns the error without starting the pty copier, the forwarder and the
\* transformer worker having been started before, and by the time it returns
\* the transformer is closed with its worker terminated, the pty is closed
\* and the subscription is released.
C12_Amended ==
    /\ (Returned /\ result = "openerr") =>
           /\ fwd = "none" /\ wpc = "none" /\ cop = "none" /\ sub = "none"
           /\ ~subscribed /\ ~chClosed /\ sized = <<>>
    /\ (Returned /\ result = "starterr") =>
           /\ cop = "none" /\ sub = "none"
           /\ fwd \in {"run", "done"}
           /\ WorkerTerminated /\ wclosed /\ wg = 0
           /\ ~pOpen /\ ~tOpen
           /\ ~subscribed /\ chClosed

C12_Witness ==
    /\ Returned /\ result = "starterr"
    /\ fwd = "run" /\ wpc = "wgdone" /\ stores = 1 /\ changes # <<>>

\* the writes of the i-th leveled print call
WritesOf(i) == SubSeq(out, calls[i].from + 1, calls[i].to)

\* C13: a leveled print at level L on a logger with threshold T writes the
\* prefix of level L and then the message, the reset code and a newline when
\* T <= L, and writes nothing when T > L; nothing else is written.
C13_LeveledPrint ==
    /\ \A i \in 1..Len(calls) :
          /\ calls[i].from = IF i = 1 THEN 0 ELSE calls[i - 1].to
          /\ IF cfg.threshold <= calls[i].level
             THEN /\ Len(WritesOf(i)) = 2
                  /\ \E g \in StoredSizes :
                        WritesOf(i)[1].data =
                            getPrefix(cfg.threshold, cfg.scope, cfg.tty, g.margin, calls[i].level)
                  /\ WritesOf(i)[1].data # <<>>
                  /\ WritesOf(i)[2].data = calls[i].msg \o <<ESC, "[", "0", "m", NL>>
             ELSE WritesOf(i) = <<>>
    /\ Len(out) = IF calls = <<>> THEN 0 ELSE Last(calls).to

C13_Witness ==
    /\ Len(calls) = 2 /\ cfg.threshold = LogLevelWarn
    /\ calls[1].level = LogLevelNotice /\ WritesOf(1) = <<>>
    /\ calls[2].level = LogLevelWarn /\ Len(WritesOf(2)) = 2
    /\ Len(OutBytes) > 16

\* pat occurs in b at index j
Occurs(pat, b, j) == j + Len(pat) - 1 <= Len(b) /\ SubSeq(b, j, j + Len(pat) - 1) = pat
\* the colour code of the writer's level
LevelColour == ansiTable(cfg.tty, cfg.wlevel)
\* after the first i bytes of b the level's colour is in effect: its code has
\* been written and no reset code since
ColourInEffect(b, i) ==
    /\ LevelColour # <<>>
    /\ \E j \in 1..i :
          /\ Occurs(LevelColour, b, j) /\ j + Len(LevelColour) - 1 <= i
          /\ ~\E k \in (j + Len(LevelColour))..i :
                 Occurs(Reset, b, k) /\ k + Len(Reset) - 1 <= i

\* C14 (as stated): every line the transformer writes is terminated by the
\* reset code before its line break, so the colour of the writer's level is
\* in effect neither at a line break nor at the end of the stream (stated for
\* plain-text streams, which bring no colour codes of their own).
C14_ColourReset ==
    Plain(input) =>
        /\ \A i \in 1..Len(OutBytes) :
              IsNewline(OutBytes[i]) => ~ColourInEffect(OutBytes, i - 1)
        /\ Closed => ~ColourInEffect(OutBytes, Len(OutBytes))

\* C15 (as stated): a writer whose level is below the logger's threshold
\* writes no byte to the terminal, neither prefix nor stream content.
C15_WriterThreshold == ~Passes => OutBytes = <<>>

\* index of the first ESC of a drawn prefix: the scope label lies between
\* the colour of the scope and this reset code
FirstEsc(p) == CHOOSE k \in 1..Len(p) : p[k] = ESC /\ \A j \in 1..(k - 1) : p[j] # ESC
\* display columns of the scope label in a drawn prefix (one per character)
LabelColumns(p) == FirstEsc(p) - 2
Separator(p) == SubSeq(p, FirstEsc(p) + Len(Reset), FirstEsc(p) + Len(Reset) + 1)
\* the prefixes drawn by the step
NewPrefixes ==
    {out'[i].data : i \in {j \in (Len(out) + 1)..Len(out') : out'[j].src = "prefix"}} \ {<<>>}

\* C19 (as stated): the scope label of every prefix the writer draws takes
\* exactly as many display columns as the margin the size source holds, and
\* is followed by the two-character separator.
C19_LabelWidth ==
    [][\A p \in NewPrefixes :
          LabelColumns(p) = size.margin /\ Separator(p) = <<"|", " ">>]_vars

\* C20 (as stated): the geometry of Exec's first pty.Setsize (width, height
\* and margin) is one geometry that syncTermSize can have stored.
C20_SingleGeometry ==
    sized # <<>> =>
        \E g \in ExecSizes :
            /\ sized[1].width = g.width
            /\ sized[1].height = g.height
            /\ sized[1].margin = g.margin

\* C16: when the worker's read ends with end-of-stream or a closed pipe the
\* worker writes the buffered newline bytes and nothing after them, logs
\* nothing and exits; when it fails with another error the worker makes
\* exactly one leveled print call, at warning level, and exits; in both cases
\* it signals completion, so that a pending Close returns.
C16_ReadEnd ==
    /\ [][(wpc = "read" /\ wpc' = "exit") =>
            (out' = Append(out, W("flush", newline)) /\ calls' = calls)]_vars
    /\ [][(wpc = "read" /\ wpc' = "warn") => calls' = calls]_vars
    /\ [][calls' # calls => (wpc = "warn" /\ wpc' = "exit")]_vars
    /\ [][(wpc = "warn" /\ wpc' # "warn") =>
            (/\ wpc' = "exit"
             /\ calls' = Append(calls, [level |-> LogLevelWarn, msg |-> ReadErrorMessage,
                                        from |-> Len(out), to |-> Len(out')])
             /\ Len(out') = Len(out) + (IF cfg.threshold <= LogLevelWarn THEN 2 ELSE 0))]_vars
    /\ [][(WorkerTerminated \/ wpc = "exit") => (out' = out /\ calls' = calls)]_vars
    /\ (wpc = "exit") ~> (wg = 0)
    /\ (cpc = "closewait") ~> (cpc = "idle")

C16_Witness ==
    /\ closes = 1 /\ wpc = "done"
    /\ Len(calls) = 1 /\ calls[1].level = LogLevelWarn
    /\ calls[1].to = calls[1].from + 2 /\ calls[1].from >= 2
    /\ taken < Len(input)

\* Exec has returned after the session was set up
SessionOver == Returned /\ result \in {"nil", "exiterr", "starterr"}

\* C17: when Exec returns after the session was set up (the subprocess has
\* exited, or failed to start) the subscription is released and the
\* transformer is closed with its worker terminated; nothing is written to
\* the terminal after Exec has returned, and the forwarder terminates.
C17_Teardown ==
    /\ [](SessionOver =>
            /\ ~subscribed /\ chClosed
            /\ wclosed /\ WorkerTerminated /\ wg = 0 /\ closes = 1)
    /\ [][Returned => out' = out]_vars
    /\ SessionOver ~> (fwd = "done")

C17_Witness ==
    /\ SessionOver /\ result = "nil" /\ fwd = "done"
    /\ received # <<>> /\ OutBytes # <<>> /\ Last(OutBytes) = NL
    /\ cop = "done" /\ taken = 1

\* the Setsize calls the forwarder makes for the geometries gs
Forwarded(gs) == [i \in 1..Len(gs) |-> Sizing(gs[i].height, gs[i].width, gs[i].margin)]

====
